---- MODULE Spec2Model ----
(***************************************************************************)
(* A model of scripts/generate_feeds.py: the release loader                *)
(* (process_releases), the feed renderer (generate_rss_feed) and the       *)
(* orchestrator (main) that loads once and renders four feed variants.     *)
(*                                                                         *)
(* Conventions of the encoding                                             *)
(*  - A decoded JSON object is a record with a field `keys`, the set of    *)
(*    keys the object has; the value of a key that is not in `keys` is     *)
(*    never read.  JSON null is the value Null.                            *)
(*  - A published_at string is [form, day]:                                *)
(*      form "Z"      is "2024-01-<day>T00:00:00Z"                         *)
(*      form "offset" is "2024-01-<day>T00:00:00+00:00"                    *)
(*      form "naive"  is "2024-01-<day>T00:00:00"                          *)
(*      form "empty"  is ""                                                *)
(*  - body/description and html_url are copied through by the code and     *)
(*    never decide anything; they are left out of the records.             *)
(*  - An entry and an item carry `src`, the position in releases.json of   *)
(*    the record they were made from.  The code has no such field; it is   *)
(*    history, read only by the properties.                                *)
(***************************************************************************)
EXTENDS Integers, Sequences, FiniteSets, TLC

VARIABLES source, releases, max_entries, pc, error, entries, i, attempted, feed

vars == <<source, releases, max_entries, pc, error, entries, i, attempted, feed>>

(* ------------------------------ bounds --------------------------------- *)

\* Longest releases.json list that is explored.
MaxReleases == 3
\* Days on which a release may have been published: 1..MaxDay.
MaxDay == 2
\* process_releases is explored with max_entries in 1..CapBound and with
\* the value main passes.
CapBound == 2

(* ---------------------------- constants -------------------------------- *)

\* main: process_releases(max_entries=50)
DefaultMaxEntries == 50

TorrentName == "peerbanhelper.torrent"
TorrentUrlPrefix == "https://github.com/PBH-BTN/PeerBanHelper/releases/download/"
MirrorUrlPrefix == "https://ghfast.top/https://github.com/PBH-BTN/PeerBanHelper/releases/download/"
Null == "<null>"

AllKeys == {"tag_name", "name", "draft", "prerelease", "published_at", "assets"}

(* ------------------------------ inputs --------------------------------- *)

Date(form, day) == [form |-> form, day |-> day]

Asset(name, size) == [name |-> name, size |-> size]

Release(keys, tag, name, draft, pre, date, assets) ==
    [keys |-> keys, tag_name |-> tag, name |-> name, draft |-> draft,
     prerelease |-> pre, published_at |-> date, assets |-> assets]

\* The records releases.json is drawn from: for every day a titled stable
\* release and an untitled prerelease with a second asset, and one record
\* for each way a record can differ from those.
SampleReleases ==
    { Release(AllKeys, "v" \o ToString(d), "Version " \o ToString(d), FALSE, FALSE,
              Date("Z", d), <<Asset(TorrentName, 1000 * d)>>) : d \in 1..MaxDay }
    \cup
    { Release(AllKeys \ {"name"}, "b" \o ToString(d), "", FALSE, TRUE, Date("Z", d),
              <<Asset("peerbanhelper.jar", 7), Asset(TorrentName, 2000 * d)>>) : d \in 1..MaxDay }
    \cup
    { Release(AllKeys, "draft", "R&D", TRUE, FALSE, Date("Z", 1), <<Asset(TorrentName, 500)>>),
      Release(AllKeys, "jar", "Jar only", FALSE, FALSE, Date("Z", 1), <<Asset("PeerBanHelper.torrent", 7)>>),
      Release(AllKeys, "e", "", FALSE, FALSE, Date("Z", 1), <<Asset(TorrentName, 600)>>),
      Release(AllKeys, "n", Null, FALSE, FALSE, Date("Z", 1), <<Asset(TorrentName, 700)>>),
      Release(AllKeys, "o", "R&D", FALSE, TRUE, Date("offset", 1), <<Asset(TorrentName, 800)>>),
      Release(AllKeys, "l", "Local", FALSE, FALSE, Date("naive", 1), <<Asset(TorrentName, 900)>>),
      Release(AllKeys, "u", "Undated", FALSE, FALSE, Date("empty", 0), <<Asset(TorrentName, 100)>>),
      Release(AllKeys \ {"tag_name"}, "", "Untagged", FALSE, FALSE, Date("Z", 1), <<Asset(TorrentName, 200)>>),
      Release(AllKeys \ {"assets"}, "a", "No assets", FALSE, FALSE, Date("Z", 1), <<>>) }

SeqsUpTo(S, n) == UNION { [1..k -> S] : k \in 0..n }

\* What open('releases.json') and json.load meet.
Sources == {"ok", "missing", "unreadable", "malformed", "scalar"}

(* ------------------------- process_releases ---------------------------- *)

\* dict.get(key, default)
Get(d, key, default) == IF key \in d.keys THEN d[key] ELSE default

\* FindTorrent taking the first asset whatever its name.
FindTorrent_AnyAsset(assets) == IF assets = <<>> THEN 0 ELSE 1

\* next((a for a in release['assets'] if a['name'] == 'peerbanhelper.torrent'), None):
\* the position of the first such asset, 0 for None.
FindTorrent(assets) ==
    LET hits == { k \in 1..Len(assets) : assets[k].name = TorrentName }
    IN  IF hits = {} THEN 0 ELSE CHOOSE k \in hits : \A m \in hits : k <= m

\* The dict built for one release that passed the two skips.
Processed(release, torrent_asset, k) ==
    [title         |-> Get(release, "name", release.tag_name),
     pub_date      |-> Get(release, "published_at", Date("empty", 0)),
     is_prerelease |-> Get(release, "prerelease", FALSE),
     size          |-> torrent_asset.size,
     torrent_url   |-> TorrentUrlPrefix \o release.tag_name \o "/" \o TorrentName,
     mirror_url    |-> MirrorUrlPrefix \o release.tag_name \o "/" \o TorrentName,
     src           |-> k]

Raise(exc) == [error |-> exc, value |-> <<>>]
Return(v) == [error |-> "none", value |-> v]

\* The for loop over releases: the list valid_releases, or the KeyError of the
\* first record read without 'assets' or 'tag_name'.
RECURSIVE CollectValid(_, _, _)
CollectValid(rs, k, acc) ==
    IF k > Len(rs) THEN Return(acc)
    ELSE LET release == rs[k] IN
         IF Get(release, "draft", FALSE) THEN CollectValid(rs, k + 1, acc)
         ELSE IF "assets" \notin release.keys THEN Raise("KeyError")
         ELSE LET t == FindTorrent(release.assets) IN
              IF t = 0 THEN CollectValid(rs, k + 1, acc)
              ELSE IF "tag_name" \notin release.keys THEN Raise("KeyError")
              ELSE CollectValid(rs, k + 1, Append(acc, Processed(release, release.assets[t], k)))

\* str.replace('Z', '+00:00')
ReplaceZ(s) == IF s.form = "Z" THEN Date("offset", s.day) ELSE s

\* datetime.fromisoformat: a datetime, aware or naive, or ValueError.
fromisoformat(s) ==
    CASE s.form = "offset" -> [ok |-> TRUE, aware |-> TRUE, t |-> s.day]
      [] s.form = "naive"  -> [ok |-> TRUE, aware |-> FALSE, t |-> s.day]
      [] OTHER             -> [ok |-> FALSE, aware |-> FALSE, t |-> 0]

\* The sort key: lambda x: datetime.fromisoformat(x['pub_date'].replace('Z', '+00:00'))
SortKey(x) == fromisoformat(ReplaceZ(x.pub_date))

\* InsertDescending putting an element before the elements of equal key.
RECURSIVE InsertDescending_TiesFirst(_, _)
InsertDescending_TiesFirst(sorted, x) ==
    IF sorted = <<>> THEN <<x>>
    ELSE IF SortKey(Head(sorted)).t > SortKey(x).t
         THEN <<Head(sorted)>> \o InsertDescending_TiesFirst(Tail(sorted), x)
         ELSE <<x>> \o sorted

\* One element put into a list already in descending key order, behind every
\* element whose key is not smaller: list.sort(reverse=True) keeps elements
\* of equal key in their original order.
RECURSIVE InsertDescending(_, _)
InsertDescending(sorted, x) ==
    IF sorted = <<>> THEN <<x>>
    ELSE IF SortKey(Head(sorted)).t >= SortKey(x).t
         THEN <<Head(sorted)>> \o InsertDescending(Tail(sorted), x)
         ELSE <<x>> \o sorted

RECURSIVE SortDescending(_)
SortDescending(list) ==
    IF list = <<>> THEN <<>>
    ELSE InsertDescending(SortDescending(SubSeq(list, 1, Len(list) - 1)), list[Len(list)])

\* valid_releases.sort(key=..., reverse=True): the keys are computed first
\* (ValueError on a string that is no ISO date), then compared (TypeError
\* between an aware and a naive datetime).
SortReleases(valid) ==
    IF \E k \in 1..Len(valid) : ~SortKey(valid[k]).ok THEN Raise("ValueError")
    ELSE IF \E k, m \in 1..Len(valid) : SortKey(valid[k]).aware # SortKey(valid[m]).aware
         THEN Raise("TypeError")
    ELSE Return(SortDescending(valid))

\* Truncate keeping the last n elements: valid_releases[-max_entries:]
Truncate_KeepLast(list, n) ==
    SubSeq(list, IF Len(list) < n THEN 1 ELSE Len(list) - n + 1, Len(list))

\* valid_releases[:max_entries]
Truncate(list, n) == SubSeq(list, 1, IF Len(list) < n THEN Len(list) ELSE n)

process_releases(src, rs, n) ==
    CASE src = "missing"    -> Return(<<>>)
      [] src = "malformed"  -> Return(<<>>)
      [] src = "unreadable" -> Raise("PermissionError")
      [] src = "scalar"     -> Raise("TypeError")
      [] OTHER ->
            LET valid == CollectValid(rs, 1, <<>>) IN
            IF valid.error # "none" THEN valid
            ELSE LET sorted == SortReleases(valid.value) IN
                 IF sorted.error # "none" THEN sorted
                 ELSE Return(Truncate(sorted.value, n))

(* ------------------------- generate_rss_feed --------------------------- *)

\* xml.sax.saxutils.escape on the titles of SampleReleases.
escape(text) == IF text = "R&D" THEN "R&amp;D" ELSE text

\* datetime.strptime(s, '%Y-%m-%dT%H:%M:%SZ')
strptime(s) == IF s.form = "Z" THEN [ok |-> TRUE, t |-> s.day] ELSE [ok |-> FALSE, t |-> 0]

\* strftime('%a, %d %b %Y %H:%M:%S GMT')
strftime(d) == [rfc822 |-> "GMT", day |-> d.t]

ChannelTitle(include_prerelease, use_mirror) ==
    "PeerBanHelper Releases"
        \o (IF use_mirror THEN " [Mirror]" ELSE "")
        \o (IF include_prerelease THEN " (Including Pre-releases)" ELSE "")

\* The test that skips an entry: not include_prerelease and entry['is_prerelease'].
Skipped(entry, include_prerelease) == ~include_prerelease /\ entry.is_prerelease

\* EnclosureUrl with the two branches exchanged.
EnclosureUrl_Swapped(entry, use_mirror) == IF use_mirror THEN entry.torrent_url ELSE entry.mirror_url

\* enclosure_url = entry['mirror_url'] if use_mirror else entry['torrent_url']
EnclosureUrl(entry, use_mirror) == IF use_mirror THEN entry.mirror_url ELSE entry.torrent_url

Item(entry, use_mirror) ==
    [title     |-> escape(entry.title),
     pubDate   |-> strftime(strptime(entry.pub_date)),
     enclosure |-> [url    |-> EnclosureUrl(entry, use_mirror),
                    length |-> ToString(entry.size),
                    type   |-> "application/x-bittorrent"],
     src       |-> entry.src]

\* The for loop over entries: the items, or the exception of the first entry
\* that is not skipped and cannot be rendered (escape(None), strptime).
RECURSIVE Items(_, _, _, _, _)
Items(es, k, include_prerelease, use_mirror, acc) ==
    IF k > Len(es) THEN Return(acc)
    ELSE LET entry == es[k] IN
         IF Skipped(entry, include_prerelease)
         THEN Items(es, k + 1, include_prerelease, use_mirror, acc)
         ELSE IF entry.title = Null THEN Raise("AttributeError")
         ELSE IF ~strptime(entry.pub_date).ok THEN Raise("ValueError")
         ELSE Items(es, k + 1, include_prerelease, use_mirror, Append(acc, Item(entry, use_mirror)))

generate_rss_feed(es, include_prerelease, use_mirror) ==
    LET items == Items(es, 1, include_prerelease, use_mirror, <<>>) IN
    IF items.error # "none" THEN items
    ELSE Return([title       |-> ChannelTitle(include_prerelease, use_mirror),
                 link        |-> "https://github.com/PBH-BTN/PeerBanHelper/releases",
                 description |-> ChannelTitle(include_prerelease, use_mirror),
                 items       |-> items.value])

(* -------------------------------- main --------------------------------- *)

feed_configs ==
    << [filename |-> "feeds/github.feed.xml",            include_pre |-> FALSE, use_mirror |-> FALSE],
       [filename |-> "feeds/github.feed.prerelease.xml", include_pre |-> TRUE,  use_mirror |-> FALSE],
       [filename |-> "feeds/mirror.feed.xml",            include_pre |-> FALSE, use_mirror |-> TRUE],
       [filename |-> "feeds/mirror.feed.prerelease.xml", include_pre |-> TRUE,  use_mirror |-> TRUE] >>

NoFeed == [filename |-> "", status |-> "none", error |-> "none", items |-> <<>>, title |-> ""]

Init ==
    /\ source \in Sources
    /\ releases \in (IF source = "ok" THEN SeqsUpTo(SampleReleases, MaxReleases) ELSE {<<>>})
    /\ max_entries \in (1..CapBound) \cup {DefaultMaxEntries}
    /\ pc = "start"
    /\ error = "none"
    /\ entries = <<>>
    /\ i = 1
    /\ attempted = <<>>
    /\ feed = NoFeed

\* entries = process_releases(max_entries=...): the call in main is in no try
\* block, so what it raises ends the run.
LoadReleases ==
    /\ pc = "start"
    /\ LET r == process_releases(source, releases, max_entries) IN
       IF r.error = "none"
       THEN /\ entries' = r.value
            /\ pc' = "loop"
            /\ error' = "none"
       ELSE /\ entries' = <<>>
            /\ pc' = "crashed"
            /\ error' = r.error
    /\ UNCHANGED <<source, releases, max_entries, i, attempted, feed>>

\* One pass of the loop over feed_configs: render, then write the file; an
\* exception of either is caught, logged, and the loop goes on.
GenerateFeed ==
    /\ pc = "loop"
    /\ i <= Len(feed_configs)
    /\ LET cfg == feed_configs[i]
           content == generate_rss_feed(entries, cfg.include_pre, cfg.use_mirror)
       IN  /\ attempted' = Append(attempted, cfg.filename)
           /\ IF content.error # "none"
              THEN feed' = [filename |-> cfg.filename, status |-> "render_failed",
                            error |-> content.error, items |-> <<>>, title |-> ""]
              ELSE \E written \in BOOLEAN :
                     feed' = [filename |-> cfg.filename,
                              status |-> IF written THEN "written" ELSE "write_failed",
                              error |-> IF written THEN "none" ELSE "OSError",
                              items |-> content.value.items,
                              title |-> content.value.title]
    /\ i' = i + 1
    /\ UNCHANGED <<source, releases, max_entries, pc, error, entries>>

\* logger.info("RSS 生成流程完成")
Finish ==
    /\ pc = "loop"
    /\ i > Len(feed_configs)
    /\ pc' = "done"
    /\ UNCHANGED <<source, releases, max_entries, error, entries, i, attempted, feed>>

Next == LoadReleases \/ GenerateFeed \/ Finish

Spec == Init /\ [][Next]_vars

(* ----------------------------- properties ------------------------------ *)

\* The configuration of the feed attempted last.
LastConfig == feed_configs[Len(attempted)]

\* generate_rss_feed returned a document for the feed attempted last.
Rendered == feed.status \in {"written", "write_failed"}

Loaded == pc \in {"loop", "done"}

Min(a, b) == IF a < b THEN a ELSE b

\* The prefix that makes a mirror URL of a torrent URL.
MirrorHost == "https://ghfast.top/"

\* A record the loader is to leave out: a draft, or one with no asset named
\* exactly peerbanhelper.torrent.
Excluded(r) ==
    \/ ("draft" \in r.keys /\ r.draft)
    \/ "assets" \notin r.keys
    \/ \A k \in DOMAIN r.assets : r.assets[k].name # TorrentName

\* A record with a per-record defect: a required field is missing or its
\* published_at is no ISO-8601 date.
Defective(r) ==
    \/ "tag_name" \notin r.keys
    \/ "assets" \notin r.keys
    \/ "published_at" \notin r.keys
    \/ r.published_at.form \notin {"Z", "offset", "naive"}

ValidIdx == { k \in DOMAIN releases : ~Excluded(releases[k]) }

Day(k) == releases[k].published_at.day

UrlsOfTag(tag) ==
    { TorrentUrlPrefix \o tag \o "/" \o TorrentName, MirrorUrlPrefix \o tag \o "/" \o TorrentName }

\* C1: a record with a per-record defect (unparseable or empty published_at,
\* missing tag_name or assets) is left out on its own: the run does not
\* terminate abnormally and the loader returns the other valid records.
C1_DefectiveRecordExcludedAlone ==
    (source = "ok" /\ \E k \in DOMAIN releases : Defective(releases[k]))
        => /\ pc # "crashed"
           /\ Loaded => Len(entries) =
                  Min(Cardinality({ k \in ValidIdx : ~Defective(releases[k]) }), max_entries)

\* C2: when releases.json is missing, unreadable or not valid JSON, the loader
\* returns the empty list, the run goes on, and every feed is rendered with
\* zero items and its channel title.
C2_UnavailableSourceGivesEmptyFeeds ==
    source \in {"missing", "unreadable", "malformed"}
        => /\ pc # "crashed"
           /\ entries = <<>>
           /\ feed.status # "none"
                 => /\ Rendered
                    /\ feed.items = <<>>
                    /\ feed.title = ChannelTitle(LastConfig.include_pre, LastConfig.use_mirror)

\* C3: for each of the four flag combinations, a record with draft=true and a
\* record with no asset named exactly peerbanhelper.torrent has no item in
\* the feed: no item was made from it and no enclosure points at its tag.
C3_ExcludedRecordHasNoItem ==
    \A k \in DOMAIN releases : Excluded(releases[k]) =>
        \A m \in DOMAIN feed.items :
            /\ feed.items[m].src # k
            /\ "tag_name" \in releases[k].keys
                  => feed.items[m].enclosure.url \notin UrlsOfTag(releases[k].tag_name)

C3_Witness ==
    /\ feed.status = "written"
    /\ feed.items # <<>>
    /\ \E k \in DOMAIN releases : "draft" \in releases[k].keys /\ releases[k].draft
    /\ \E k \in DOMAIN releases :
          /\ ~releases[k].draft
          /\ releases[k].assets # <<>>
          /\ Excluded(releases[k])

\* C4: once a feed variant has been attempted, each entry the loader returned
\* has an item in it if and only if include_prerelease is true or the entry
\* is no prerelease.
C4_ItemIffNotFilteredPrerelease ==
    feed.status # "none" =>
        \A k \in DOMAIN entries :
            (\E m \in DOMAIN feed.items : feed.items[m].src = entries[k].src)
                <=> (LastConfig.include_pre \/ ~entries[k].is_prerelease)

\* The part of C4 the code keeps: in every document generate_rss_feed returns,
\* the items are the entries that are not filtered prereleases.
RenderedFeedFiltersPrereleases ==
    Rendered =>
        { feed.items[m].src : m \in DOMAIN feed.items }
            = { entries[k].src : k \in { n \in DOMAIN entries :
                                          LastConfig.include_pre \/ ~entries[n].is_prerelease } }

\* C5: the loader returns exactly the first min(n, max_entries) entries of the
\* valid entries in descending order of date: that many entries, at most
\* max_entries in the list and in a feed, every discarded entry no more
\* recent than any kept one, and between equal dates the earlier record kept.
C5_TruncationKeepsNewest ==
    (Loaded /\ source = "ok") =>
        LET kept == { entries[m].src : m \in DOMAIN entries } IN
        /\ kept \subseteq ValidIdx
        /\ Cardinality(kept) = Len(entries)
        /\ Len(entries) = Min(Cardinality(ValidIdx), max_entries)
        /\ Len(entries) <= max_entries
        /\ Len(feed.items) <= max_entries
        /\ \A a \in kept, d \in ValidIdx \ kept :
              Day(d) < Day(a) \/ (Day(d) = Day(a) /\ a < d)
        /\ \A m, n \in DOMAIN entries : m < n =>
              \/ Day(entries[m].src) > Day(entries[n].src)
              \/ (Day(entries[m].src) = Day(entries[n].src) /\ entries[m].src < entries[n].src)

C5_Witness ==
    /\ pc = "loop"
    /\ max_entries = 2
    /\ Len(entries) = 2
    /\ Cardinality(ValidIdx) = 3
    /\ \E d \in ValidIdx : /\ \A m \in DOMAIN entries : entries[m].src # d
                           /\ d = 1
                           /\ \E m \in DOMAIN entries : Day(entries[m].src) > Day(d)

\* C6: the items of a rendered feed are in non-increasing order of pubDate,
\* and items of equal pubDate are in the order of their records in the input.
C6_ItemsNewestFirstStable ==
    Rendered =>
        \A a, b \in DOMAIN feed.items : a < b =>
            \/ feed.items[a].pubDate.day > feed.items[b].pubDate.day
            \/ /\ feed.items[a].pubDate.day = feed.items[b].pubDate.day
               /\ feed.items[a].src < feed.items[b].src

C6_Witness ==
    /\ feed.status = "written"
    /\ Len(feed.items) = 3
    /\ feed.items[1].pubDate.day = feed.items[2].pubDate.day
    /\ feed.items[2].pubDate.day > feed.items[3].pubDate.day
    /\ feed.items[3].src = 1

\* C7: every run attempts the four feed variants in the order of feed_configs
\* and ends at its completion step.
C7_AllVariantsAttemptedAndCompleted ==
    /\ \A k \in DOMAIN attempted : attempted[k] = feed_configs[k].filename
    /\ pc \in {"done", "crashed"}
          => /\ pc = "done"
             /\ Len(attempted) = Len(feed_configs)

\* The part of C7 the code keeps: once the loader has returned, the loop
\* attempts the variants in order whatever the earlier ones did, and the run
\* completes only after all four.
LoopAttemptsEveryVariant ==
    /\ \A k \in DOMAIN attempted : attempted[k] = feed_configs[k].filename
    /\ pc = "loop" => Len(attempted) = i - 1
    /\ pc = "done" => Len(attempted) = Len(feed_configs)

\* C8: an entry's title is the record's name when name is present and
\* non-empty, and the record's tag_name when name is absent, null or "".
C8_TitleFallsBackToTag ==
    \A m \in DOMAIN entries :
        LET r == releases[entries[m].src] IN
        entries[m].title = IF "name" \in r.keys /\ r.name \notin {"", Null}
                           THEN r.name ELSE r.tag_name

\* C9: the enclosure url of every item is the mirror URL exactly when
\* use_mirror is true and the torrent URL otherwise, both built from the
\* record's tag_name, the mirror URL being the torrent URL behind
\* https://ghfast.top/; its length is the size of the record's torrent asset.
C9_EnclosureFollowsUseMirror ==
    Rendered =>
        \A m \in DOMAIN feed.items :
            LET r == releases[feed.items[m].src]
                torrent == TorrentUrlPrefix \o r.tag_name \o "/peerbanhelper.torrent"
            IN  /\ feed.items[m].enclosure.url =
                      IF LastConfig.use_mirror THEN MirrorHost \o torrent ELSE torrent
                /\ \E a \in DOMAIN r.assets :
                      /\ r.assets[a].name = TorrentName
                      /\ feed.items[m].enclosure.length = ToString(r.assets[a].size)

C9_Witness ==
    /\ feed.status = "written"
    /\ LastConfig.use_mirror
    /\ \E m \in DOMAIN feed.items :
          /\ Len(releases[feed.items[m].src].assets) = 2
          /\ feed.items[m].enclosure.length = "2000"

\* C10: every entry the loader returns can be rendered: no attempt at a feed
\* fails in the date reformat.
C10_LoaderOutputRenders ==
    feed.status = "render_failed" => feed.error # "ValueError"

====
